---- MODULE Spec2Model ----
(***************************************************************************)
(* Model of src/main.py: the FastAPI handler get_country_outline, which    *)
(* fetches a Wikipedia article and renders the headings of its content     *)
(* region as a Markdown outline.                                           *)
(*                                                                         *)
(* A text is a sequence of one-character strings.  Fixed message literals  *)
(* whose characters never matter (the URL prefix, the detail prefixes) are *)
(* kept as one element each.                                               *)
(*                                                                         *)
(* The handler is a coroutine with one suspension point, the GET of line   *)
(* 54: what runs before it is one action (Receive), what runs after it is  *)
(* one action per way the GET can end (Respond, TransportError).           *)
(***************************************************************************)
EXTENDS Integers, Sequences, FiniteSets, TLC

VARIABLES
    remote,         \* what en.wikipedia.org serves for the article: status and parsed page
    pc,             \* per request: "idle", "fetching" (suspended in client.get), "done"
    country,        \* per request: the query parameter `country`
    wikipedia_url,  \* per request: the local wikipedia_url
    gets,           \* per request: the URLs client.get was called with, in order
    result,         \* per request: how the GET ended
    outline,        \* per request: the local list markdown_outline
    response        \* per request: what the handler handed back to the framework

vars == <<remote, pc, country, wikipedia_url, gets, result, outline, response>>

\* ------------------------------------------------------------------ bounds

\* Largest number of elements in the content region of a sampled page.
MaxBody == 2

\* The requests in flight at once.
Requests == {1, 2}

\* ------------------------------------------------------------------ texts

NL == "\n"

Whitespace == {" ", NL, "\t"}

TxtContents == <<"C", "o", "n", "t", "e", "n", "t", "s">>
TxtEditLower == <<"[", "e", "d", "i", "t", "]">>
TxtEditUpper == <<"[", "E", "d", "i", "t", "]">>

\* substring test: Python's `sub in s`
Contains(s, sub) ==
    \E i \in 1..(Len(s) - Len(sub) + 1) : SubSeq(s, i, i + Len(sub) - 1) = sub

\* Python's str.replace(old, new): leftmost occurrences, left to right, one pass,
\* the scan resuming after each replaced occurrence.
RECURSIVE Replace(_, _, _)
Replace(s, old, new) ==
    IF Len(s) < Len(old) THEN s
    ELSE IF SubSeq(s, 1, Len(old)) = old
         THEN new \o Replace(SubSeq(s, Len(old) + 1, Len(s)), old, new)
         ELSE <<s[1]>> \o Replace(Tail(s), old, new)

RECURSIVE LStrip(_)
LStrip(s) == IF s # <<>> /\ s[1] \in Whitespace THEN LStrip(Tail(s)) ELSE s

RECURSIVE RStrip(_)
RStrip(s) ==
    IF s # <<>> /\ s[Len(s)] \in Whitespace THEN RStrip(SubSeq(s, 1, Len(s) - 1)) ELSE s

Strip(s) == RStrip(LStrip(s))

\* Tag.get_text(strip=True): every text node stripped, the empty ones dropped, the
\* rest concatenated with no separator.
RECURSIVE GetTextStrip(_)
GetTextStrip(strings) ==
    IF strings = <<>> THEN <<>>
    ELSE Strip(Head(strings)) \o GetTextStrip(Tail(strings))

\* '#' * level
RECURSIVE Hashes(_)
Hashes(n) == IF n <= 0 THEN <<>> ELSE <<"#">> \o Hashes(n - 1)

\* sep.join(lines)
RECURSIVE Join(_, _)
Join(lines, sep) ==
    IF lines = <<>> THEN <<>>
    ELSE IF Len(lines) = 1 THEN lines[1]
    ELSE lines[1] \o sep \o Join(Tail(lines), sep)

\* ------------------------------------------------------------------ pages

\* An element of a parsed page: its tag name and its text nodes in document order.
Elem(name, strings) == [name |-> name, strings |-> strings]

H(n) == <<"h", n>>

\* A parsed page, as far as the handler looks at it: whether an element with
\* id="mw-content-text" exists, the elements under it in document order, and the
\* h1 id="firstHeading" title, which lies outside the content region.
Page(has_content, content, has_title, title) ==
    [has_content |-> has_content, content |-> content,
     has_title |-> has_title, title |-> title]

\* The elements sampled pages are built from.
SampleElems ==
    { Elem(H("1"), << <<"A">> >>),
      Elem(H("3"), << <<"A">> >>),
      Elem(H("2"), << <<"B">>, <<"[">>, <<"e", "d", "i", "t">>, <<"]">> >>),
      Elem(H("1"), << <<"x">>, TxtContents >>),
      Elem(H("3"), << <<"C", "o", "n">>, TxtEditLower, <<"t", "e", "n", "t", "s">> >>),
      Elem(H("4"), << <<"[", "e", "d">>, TxtEditLower, <<"i", "t", "]">> >>),
      Elem(H("6"), << <<" ", "C", " ">>, <<NL>>, TxtEditUpper, TxtEditLower, TxtEditLower >>),
      Elem(H("5"), << <<"D", NL, "E">> >>),
      Elem(H("2"), << >>),
      Elem(<<"p">>, << <<"A">> >>) }

RECURSIVE SeqsUpTo(_, _)
SeqsUpTo(S, n) ==
    IF n = 0 THEN { <<>> }
    ELSE LET shorter == SeqsUpTo(S, n - 1)
         IN  shorter \cup { Append(q, e) : q \in shorter, e \in S }

TxtVanuatu == <<"V", "a", "n", "u", "a", "t", "u">>

\* The minimal page of the specification's example: firstHeading "Vanuatu" and
\* the content headings h2 Etymology, h2 History, h3 Prehistory.
VanuatuPage ==
    Page(TRUE,
         << Elem(H("2"), << <<"E", "t", "y", "m", "o", "l", "o", "g", "y">> >>),
            Elem(H("2"), << <<"H", "i", "s", "t", "o", "r", "y">> >>),
            Elem(H("3"), << <<"P", "r", "e", "h", "i", "s", "t", "o", "r", "y">> >>) >>,
         TRUE, TxtVanuatu)

NoPage == Page(FALSE, <<>>, FALSE, <<>>)

SamplePages ==
    { Page(TRUE, c, t, IF t THEN TxtVanuatu ELSE <<>>) :
          c \in SeqsUpTo(SampleElems, MaxBody), t \in BOOLEAN }
    \cup { Page(FALSE, <<>>, t, IF t THEN TxtVanuatu ELSE <<>>) : t \in BOOLEAN }
    \cup { VanuatuPage }

\* What the site can answer: a success status with a page, or an error status.
ErrorStatuses == {301, 403, 404, 500}

Remotes ==
    { [status |-> 200, page |-> p] : p \in SamplePages }
    \cup { [status |-> s, page |-> NoPage] : s \in ErrorStatuses }

\* The ways the GET fails below HTTP (httpx.TransportError and its kin).
TransportCauses == {"ConnectTimeout", "ConnectError"}

\* The country names requests are sampled from: one inner space; no space; leading,
\* doubled and trailing spaces with an underscore, both cases and a special character.
SampleCountries ==
    { <<"U", " ", "S">>,
      <<"I">>,
      <<" ", "a", "_", " ", " ", "B", "%", " ">> }

\* ------------------------------------------------------------------ the handler

\* A bug: only the first space is replaced (str.replace(" ", "_", 1)).
FormatCountryFirstOnly(c) ==
    IF \E i \in 1..Len(c) : c[i] = " "
    THEN LET i == CHOOSE k \in 1..Len(c) : c[k] = " " /\ \A j \in 1..(k - 1) : c[j] # " "
         IN  SubSeq(c, 1, i - 1) \o <<"_">> \o SubSeq(c, i + 1, Len(c))
    ELSE c

\* formatted_country = country.replace(" ", "_")
FormatCountry(c) == Replace(c, <<" ">>, <<"_">>)

UrlPrefix == "https://en.wikipedia.org/wiki/"

\* wikipedia_url = f"https://en.wikipedia.org/wiki/{formatted_country}"
WikipediaUrl(c) == <<UrlPrefix>> \o FormatCountry(c)

\* Response.raise_for_status() returns quietly on a success status only.
IsSuccess(status) == status \in 200..299

\* A bug: h1 left out of the list of tags searched for.
HeadingTagsFromH2 == { H("2"), H("3"), H("4"), H("5"), H("6") }

\* the list ['h1', 'h2', 'h3', 'h4', 'h5', 'h6'] given to find_all
HeadingTags == { H("1"), H("2"), H("3"), H("4"), H("5"), H("6") }

\* content_div.find_all(tags): the elements of the region with one of the tag
\* names, in document order.
FindAll(content, tags) == SelectSeq(content, LAMBDA e : e.name \in tags)

\* heading.get_text(strip=True).replace('[edit]', '').replace('[Edit]', '')
CleanText(heading) ==
    Replace(Replace(GetTextStrip(heading.strings), TxtEditLower, <<>>), TxtEditUpper, <<>>)

\* A bug: the heading is skipped only when its text is exactly "Contents".
SkipHeadingExact(text) == text = TxtContents

\* if "Contents" in text: continue
SkipHeading(text) == Contains(text, TxtContents)

DigitValue(ch) ==
    CASE ch = "0" -> 0 [] ch = "1" -> 1 [] ch = "2" -> 2 [] ch = "3" -> 3 [] ch = "4" -> 4
      [] ch = "5" -> 5 [] ch = "6" -> 6 [] ch = "7" -> 7 [] ch = "8" -> 8 [] ch = "9" -> 9

\* level = int(heading.name[1]): the second character of the tag name
Level(heading) == DigitValue(heading.name[2])

\* A bug: the separating space left out of the line.
MarkdownLineNoSpace(level, text) == Hashes(level) \o text

\* f"{'#' * level} {text}"
MarkdownLine(level, text) == Hashes(level) \o <<" ">> \o text

\* A bug: the line is put in front of the list (insert(0, ...)).
AddLineInFront(acc, line) == <<line>> \o acc

\* markdown_outline.append(...)
AddLine(acc, line) == Append(acc, line)

\* the loop `for heading in headings`, started with the list `acc`
RECURSIVE BuildOutline(_, _)
BuildOutline(headings, acc) ==
    IF headings = <<>> THEN acc
    ELSE LET heading == Head(headings)
             text == CleanText(heading)
         IN  IF SkipHeading(text)
             THEN BuildOutline(Tail(headings), acc)
             ELSE BuildOutline(Tail(headings),
                               AddLine(acc, MarkdownLine(Level(heading), text)))

\* A bug: markdown_outline is one module-level list, so a request starts with the
\* lines an earlier request left in it.
SharedOutline(r) ==
    LET earlier == { q \in Requests \ {r} : pc[q] = "done" }
    IN  IF earlier = {} THEN <<>> ELSE outline[CHOOSE q \in earlier : TRUE]

\* markdown_outline = []
NewOutline(r) == <<>>

\* A bug: the check of content_div left out.
HasContentDivAlways(page) == TRUE

\* content_div = soup.find(id="mw-content-text"); `if not content_div` is its negation
HasContentDiv(page) == page.has_content

\* ---- responses and exceptions

Reply(kind, status, media_type, content, detail) ==
    [kind |-> kind, status |-> status, media_type |-> media_type,
     content |-> content, detail |-> detail]

NoReply == Reply("none", 0, "", <<>>, <<>>)

\* Response(content=final_outline, media_type="text/plain"): status 200
PlainResponse(content) == Reply("Response", 200, "text/plain", content, <<>>)

\* an HTTPException leaving the handler: the framework answers with its status
HTTPException(status, detail) == Reply("HTTPException", status, "application/json", <<>>, detail)

\* any other exception leaving the handler
UnhandledFault(exc) == Reply("Unhandled", 0, "", <<>>, exc.detail)

Exc(type, status, detail) == [type |-> type, status |-> status, detail |-> detail]

\* A bug: the message names the formatted country instead of the one supplied.
Detail404Formatted(c) ==
    <<"Wikipedia page for '">> \o FormatCountry(c) \o <<"' not found.">>

\* f"Wikipedia page for '{country}' not found."
Detail404(c) == <<"Wikipedia page for '">> \o c \o <<"' not found.">>

\* the try block after the GET answered with `status` and `page`: what it
\* returns or raises, and the list markdown_outline it leaves
TryBody(r, status, page) ==
    IF ~IsSuccess(status)
    THEN [raised |-> TRUE, exc |-> Exc("HTTPStatusError", status, <<"status error">>),
          outline |-> <<>>, reply |-> NoReply]
    ELSE IF ~HasContentDiv(page)
    THEN [raised |-> TRUE,
          exc |-> Exc("HTTPException", 500,
                      <<"500: Could not find the main content area of the Wikipedia page.">>),
          outline |-> <<>>, reply |-> NoReply]
    ELSE LET headings == FindAll(page.content, HeadingTags)
             markdown_outline == BuildOutline(headings, NewOutline(r))
             final_outline == Join(markdown_outline, <<NL>>)
         IN  [raised |-> FALSE, exc |-> Exc("", 0, <<>>),
              outline |-> markdown_outline, reply |-> PlainResponse(final_outline)]

\* A bug: no `except Exception` clause.
ExceptClausesNoCatchAll(exc, c) ==
    IF exc.type = "HTTPStatusError"
    THEN IF exc.status = 404
         THEN HTTPException(404, Detail404(c))
         ELSE HTTPException(500, <<"Failed to fetch data from Wikipedia: ">> \o exc.detail)
    ELSE IF exc.type = "HTTPException"
         THEN HTTPException(exc.status, exc.detail)
         ELSE UnhandledFault(exc)

\* the except clauses: HTTPStatusError first, then Exception, which every
\* exception of the try block is an instance of (HTTPException included)
ExceptClauses(exc, c) ==
    IF exc.type = "HTTPStatusError"
    THEN IF exc.status = 404
         THEN HTTPException(404, Detail404(c))
         ELSE HTTPException(500, <<"Failed to fetch data from Wikipedia: ">> \o exc.detail)
    ELSE HTTPException(500, <<"An unexpected error occurred: ">> \o exc.detail)

\* the handler from the answer of the GET to its end
Finish(r, status, page) ==
    LET out == TryBody(r, status, page)
    IN  IF out.raised THEN [outline |-> <<>>, reply |-> ExceptClauses(out.exc, country[r])]
        ELSE [outline |-> out.outline, reply |-> out.reply]

\* ---- how a GET ended

Answered(status, page) == [kind |-> "response", status |-> status, page |-> page, cause |-> ""]
Failed(cause) == [kind |-> "transport", status |-> 0, page |-> NoPage, cause |-> cause]
NoResult == [kind |-> "none", status |-> 0, page |-> NoPage, cause |-> ""]

\* ------------------------------------------------------------------ the state machine

Init ==
    /\ remote \in Remotes
    /\ pc = [r \in Requests |-> "idle"]
    /\ country = [r \in Requests |-> <<>>]
    /\ wikipedia_url = [r \in Requests |-> <<>>]
    /\ gets = [r \in Requests |-> <<>>]
    /\ result = [r \in Requests |-> NoResult]
    /\ outline = [r \in Requests |-> <<>>]
    /\ response = [r \in Requests |-> NoReply]

\* GET /api/outline?country=c arrives: the handler formats the URL and suspends
\* in client.get(wikipedia_url).
Receive(r, c) ==
    /\ pc[r] = "idle"
    /\ pc' = [pc EXCEPT ![r] = "fetching"]
    /\ country' = [country EXCEPT ![r] = c]
    /\ wikipedia_url' = [wikipedia_url EXCEPT ![r] = WikipediaUrl(c)]
    /\ gets' = [gets EXCEPT ![r] = Append(@, WikipediaUrl(c))]
    /\ UNCHANGED <<remote, result, outline, response>>

\* The site answers the GET; the handler runs to its end.
Respond(r) ==
    /\ pc[r] = "fetching"
    /\ LET fin == Finish(r, remote.status, remote.page)
       IN  /\ outline' = [outline EXCEPT ![r] = fin.outline]
           /\ response' = [response EXCEPT ![r] = fin.reply]
    /\ result' = [result EXCEPT ![r] = Answered(remote.status, remote.page)]
    /\ pc' = [pc EXCEPT ![r] = "done"]
    /\ UNCHANGED <<remote, country, wikipedia_url, gets>>

\* The GET fails below HTTP (timeout, DNS, connection reset): client.get raises.
TransportError(r, cause) ==
    /\ pc[r] = "fetching"
    /\ result' = [result EXCEPT ![r] = Failed(cause)]
    /\ response' = [response EXCEPT ![r] =
                        ExceptClauses(Exc("TransportError", 0, <<cause>>), country[r])]
    /\ pc' = [pc EXCEPT ![r] = "done"]
    /\ UNCHANGED <<remote, country, wikipedia_url, gets, outline>>

Next ==
    \E r \in Requests :
        \/ \E c \in SampleCountries : Receive(r, c)
        \/ Respond(r)
        \/ \E cause \in TransportCauses : TransportError(r, cause)

Spec == Init /\ [][Next]_vars

\* ------------------------------------------------------------------ what the claims speak of

Done(r) == pc[r] = "done"

\* the request ended with the 200 response
Done200(r) == Done(r) /\ response[r].status = 200

\* the page the request's GET brought back
PageOf(r) == result[r].page

AllHeadingNames == { <<"h", d>> : d \in {"1", "2", "3", "4", "5", "6"} }

\* positions of the heading elements of the content region
HeadingIdx(page) ==
    { i \in 1..Len(page.content) : page.content[i].name \in AllHeadingNames }

\* ... of those whose cleaned text contains "Contents"
ContentsIdx(page) ==
    { i \in HeadingIdx(page) : Contains(CleanText(page.content[i]), TxtContents) }

\* ... and of the others
KeptIdx(page) == HeadingIdx(page) \ ContentsIdx(page)

Rank(S, i) == Cardinality({ j \in S : j <= i })

ExpectedLine(e) == Hashes(Level(e)) \o <<" ">> \o CleanText(e)

\* the line at each rank is the line of the kept heading of that rank
InDocumentOrder(lines, page) ==
    /\ Len(lines) = Cardinality(KeptIdx(page))
    /\ \A i \in KeptIdx(page) :
           lines[Rank(KeptIdx(page), i)] = ExpectedLine(page.content[i])

RECURSIVE SplitLines(_)
SplitLines(s) ==
    IF \E i \in 1..Len(s) : s[i] = NL
    THEN LET i == CHOOSE k \in 1..Len(s) : s[k] = NL /\ \A j \in 1..(k - 1) : s[j] # NL
         IN  <<SubSeq(s, 1, i - 1)>> \o SplitLines(SubSeq(s, i + 1, Len(s)))
    ELSE <<s>>

\* the lines of a body; the empty body has none
LinesOf(body) == IF body = <<>> THEN <<>> ELSE SplitLines(body)

RECURSIVE LeadingHashes(_)
LeadingHashes(line) ==
    IF line # <<>> /\ line[1] = "#" THEN 1 + LeadingHashes(Tail(line)) ELSE 0

LinesOfLevel(lines, n) == { i \in 1..Len(lines) : LeadingHashes(lines[i]) = n }

ContentsLine == <<"#", "#", " ">> \o TxtContents

TitleLine(page) == <<"#", " ">> \o Strip(page.title)

\* the opening the specification describes: the synthetic line, then the title's
SpecOpening(page) == <<ContentsLine>> \o (IF page.has_title THEN <<TitleLine(page)>> ELSE <<>>)

\* ------------------------------------------------------------------ C1

NewlineFree(page) ==
    \A i \in KeptIdx(page) : ~Contains(CleanText(page.content[i]), <<NL>>)

VanuatuAsSpecified ==
    ContentsLine \o <<NL>> \o <<"#", " ">> \o TxtVanuatu \o <<NL>>
    \o <<"#", "#", " ", "E", "t", "y", "m", "o", "l", "o", "g", "y">> \o <<NL>>
    \o <<"#", "#", " ", "H", "i", "s", "t", "o", "r", "y">> \o <<NL>>
    \o <<"#", "#", "#", " ", "P", "r", "e", "h", "i", "s", "t", "o", "r", "y">>

VanuatuAsRendered ==
    <<"#", "#", " ", "E", "t", "y", "m", "o", "l", "o", "g", "y">> \o <<NL>>
    \o <<"#", "#", " ", "H", "i", "s", "t", "o", "r", "y">> \o <<NL>>
    \o <<"#", "#", "#", " ", "P", "r", "e", "h", "i", "s", "t", "o", "r", "y">>

FetchedPage(r) == result[r].kind = "response" /\ IsSuccess(result[r].status)

\* C3: a fetched page without the mw-content-text element ends the request with
\* status 500 and no outline at all; a 200 response is given only for a fetched
\* page with the element, and then with the lines of all its kept headings.
C3_NoContentIs500 ==
    \A r \in Requests :
        /\ (Done(r) /\ FetchedPage(r) /\ ~PageOf(r).has_content) =>
               /\ response[r].status = 500
               /\ response[r].kind = "HTTPException"
               /\ response[r].content = <<>>
               /\ outline[r] = <<>>
        /\ response[r].status = 200 =>
               /\ Done(r) /\ FetchedPage(r) /\ PageOf(r).has_content
               /\ Len(outline[r]) = Cardinality(KeptIdx(PageOf(r)))

C3_Witness ==
    \E r \in Requests :
        Done(r) /\ FetchedPage(r) /\ ~PageOf(r).has_content /\ response[r].status = 500

\* ------------------------------------------------------------------ C4

Remote404(r) == result[r].kind = "response" /\ result[r].status = 404

\* C4: a GET answered with 404 ends the request with status 404 and a detail that
\* holds the country name as supplied; nothing else ends a request with 404.
C4_NotFound ==
    \A r \in Requests :
        Done(r) =>
            /\ Remote404(r) =>
                   /\ response[r].status = 404
                   /\ Contains(response[r].detail, country[r])
            /\ response[r].status = 404 => Remote404(r)

\* a 404 for a name with a space in it
C4_Witness ==
    \E r \in Requests :
        /\ Done(r) /\ Remote404(r) /\ response[r].status = 404
        /\ \E i \in 1..Len(country[r]) : country[r][i] = " "

\* ------------------------------------------------------------------ C5

FetchFailed(r) ==
    \/ result[r].kind = "transport"
    \/ result[r].kind = "response" /\ ~IsSuccess(result[r].status) /\ result[r].status # 404

\* C5: a transport failure or a non-2xx status other than 404 ends the request
\* with status 500; no exception leaves the handler unhandled, and every request
\* ends with status 200, 404 or 500.
C5_Only200_404_500 ==
    \A r \in Requests :
        Done(r) =>
            /\ response[r].kind \in {"Response", "HTTPException"}
            /\ response[r].status \in {200, 404, 500}
            /\ FetchFailed(r) => response[r].status = 500

C5_Witness ==
    \E r \in Requests :
        Done(r) /\ result[r].kind = "transport" /\ response[r].status = 500

\* ------------------------------------------------------------------ C6

LinesWithContents(lines) == { i \in 1..Len(lines) : Contains(lines[i], TxtContents) }

C7_NoEditLabel ==
    \A r \in Requests :
        Done200(r) =>
            \A i \in 1..Len(outline[r]) :
                /\ ~Contains(outline[r][i], TxtEditLower)
                /\ ~Contains(outline[r][i], TxtEditUpper)

\* ------------------------------------------------------------------ C8

\* C8: the URL fetched is the prefix followed by the name with every space
\* replaced by an underscore and every other character unchanged and in place,
\* and each request fetches it exactly once.
C8_UrlFormat ==
    \A r \in Requests :
        /\ pc[r] = "idle" => gets[r] = <<>>
        /\ pc[r] # "idle" =>
               /\ gets[r] = <<wikipedia_url[r]>>
               /\ Len(wikipedia_url[r]) = 1 + Len(country[r])
               /\ wikipedia_url[r][1] = "https://en.wikipedia.org/wiki/"
               /\ \A i \in 1..Len(country[r]) :
                      wikipedia_url[r][i + 1] =
                          IF country[r][i] = " " THEN "_" ELSE country[r][i]

\* a finished request for a name with several spaces and an underscore of its own
C8_Witness ==
    \E r \in Requests :
        /\ Done(r)
        /\ Cardinality({ i \in 1..Len(country[r]) : country[r][i] = " " }) >= 2
        /\ \E i \in 1..Len(country[r]) : country[r][i] = "_"

\* ------------------------------------------------------------------ C9

\* C9: two finished requests with the same country name whose GETs ended the same
\* way have the same status and the same body, in whatever order they ran.
C9_SameRequestSameAnswer ==
    \A r, q \in Requests :
        (Done(r) /\ Done(q) /\ country[r] = country[q] /\ result[r] = result[q]) =>
            response[r] = response[q]

\* two finished requests for one name, both answered with a non-empty outline
C9_Witness ==
    \E r, q \in Requests :
        /\ r # q
        /\ Done200(r) /\ Done200(q)
        /\ country[r] = country[q]
        /\ result[r] = result[q]
        /\ response[r].content # <<>>

\* ------------------------------------------------------------------ C10

====
